---------------------------- MODULE Spec2Model ----------------------------
(* xbgdump: the capture pipeline of src/main.rs as a state machine.        *)
(* One run of main(): get_background (atom lookup, property read,          *)
(* geometry, pixel fetch, BGRA -> RGB(A) conversion), optionally           *)
(* mask_offscreen (RandR resources, per-CRTC info, compositing), then the  *)
(* write of the processed image.  The display server's replies are the     *)
(* inputs, drawn from small sets when a reply is received.                 *)
EXTENDS Integers, Sequences, FiniteSets, TLC

VARIABLES
    pc,            \* position of main() in the pipeline
    mask,          \* the -m flag (main.rs:75)
    issued,        \* requests sent to the server, in order
    outstanding,   \* cookies sent whose reply has not been taken
    bg_atom,       \* reply of intern_atom (0 = None)
    prop,          \* reply of get_property
    geometry,      \* reply of get_geometry
    image_x,       \* reply of get_image
    raw_bg,        \* result of get_background
    crtcs,         \* CRTC ids of the screen resources reply
    crtc_infos,    \* replies of randr_get_crtc_info, in order
    masked,        \* the destination buffer of mask_offscreen
    i,             \* index of the rectangle the mask loop is at
    processed,     \* processed_image of main
    output,        \* what was handed to write_to/save
    err            \* the error main() ended with

vars == <<pc, mask, issued, outstanding, bg_atom, prop, geometry, image_x,
          raw_bg, crtcs, crtc_infos, masked, i, processed, output, err>>

-----------------------------------------------------------------------------
(* Bounds *)

MaxCrtcs == 2
MaxWidth == 2
MaxHeight == 1

(* Program constants *)

RGBA_DEPTH == 32
RGB_DEPTH == 24

-----------------------------------------------------------------------------
(* Values *)

NoImage == [width |-> 0, height |-> 0, alpha |-> FALSE, px |-> <<>>]
NoErr == [msg |-> "", detail |-> 0]
(* No reply yet: format -1 is no format a reply carries. *)
NoProp == [format |-> -1, value |-> <<>>]
NoGeometry == [width |-> 0, height |-> 0]
NoImageReply == [depth |-> 0, data |-> <<>>]

(* Server-native pixels, 4 bytes each: blue, green, red, pad/alpha. *)
Palette == { <<1, 2, 3, 255>>, <<4, 5, 6, 0>> }

RECURSIVE Flatten(_)
Flatten(s) == IF s = <<>> THEN <<>> ELSE Head(s) \o Flatten(Tail(s))

(* Payload lengths relative to width*height*4. *)
Deltas == {-4, -1, 0, 1, 4}

Resize(bytes, d) ==
    IF d < 0 THEN SubSeq(bytes, 1, Len(bytes) + d)
    ELSE bytes \o [k \in 1..d |-> 0]

Payloads(w, h) ==
    { Resize(Flatten(p), d) : p \in [1..(w * h) -> Palette], d \in Deltas }

Depths == {8, 24, 32}

PropReplies ==
    { [format |-> f, value |-> v] :
        f \in {0, 8, 32}, v \in {<<>>, <<7>>, <<7, 9>>} } \
    { [format |-> 0, value |-> v] : v \in {<<7>>, <<7, 9>>} }

(* CRTC rectangles: x, y signed (i16), width, height unsigned (u16). *)
Rect(x, y, w, h) == [x |-> x, y |-> y, width |-> w, height |-> h]

Rects ==
    { Rect(0, 0, 1, 1), Rect(1, 0, 1, 1), Rect(0, 0, 2, 1), Rect(-1, 0, 2, 1),
      Rect(-2, 0, 1, 1), Rect(0, -1, 1, 2), Rect(-1, 0, 1, 2), Rect(0, 0, 0, 0),
      Rect(0, -2, 1, 1), Rect(-1, 0, 4, 1) }


-----------------------------------------------------------------------------
(* Library functions the program calls, as the calls behave *)

(* ImageBuffer::from_raw: Some iff the container holds at least            *)
(* width * height * 4 bytes (a longer container is accepted).              *)
(* FromRawExact is the variant that insists on the exact length.           *)
FromRawExact(w, h, data) == w * h * 4 = Len(data)
FromRaw(w, h, data) == w * h * 4 <= Len(data)

(* The k-th 4-byte unit of the container, k from 1. *)
BgraPixel(data, k) == SubSeq(data, 4 * k - 3, 4 * k)

(* Bgra -> Rgba and Bgra -> Rgb (image's FromColor for bgra.convert()).    *)
(* ToRgbNoSwap is the variant that keeps the source's channel order.       *)
ToRgba(p) == <<p[3], p[2], p[1], p[4]>>
ToRgbNoSwap(p) == <<p[1], p[2], p[3]>>
ToRgb(p) == <<p[3], p[2], p[1]>>

(* bgra.convert(): a new width x height buffer, pixel by pixel. *)
ConvertBuffer(w, h, data, alpha) ==
    [width |-> w, height |-> h, alpha |-> alpha,
     px |-> [k \in 1..(w * h) |->
               IF alpha THEN ToRgba(BgraPixel(data, k))
               ELSE ToRgb(BgraPixel(data, k))]]

(* PropertyReply::value32(): Some iff the reply's format is 32. *)
Value32(p) == p.format = 32

(* main.rs:150-154: the depths the match has an arm for.                   *)
(* SupportedDepthAny is the variant with an arm for depth 8 as well.       *)
SupportedDepthAny(d) == d \in {RGBA_DEPTH, RGB_DEPTH, 8}
SupportedDepth(d) == d \in {RGBA_DEPTH, RGB_DEPTH}

-----------------------------------------------------------------------------
(* Requests and replies *)

Query(name, k) == <<name, k>>

Issue(out, q) == out \cup {q}
(* ResolveNone is the variant where taking a reply is not awaited. *)
ResolveNone(out, q) == out
Resolve(out, q) == out \ {q}

(* FailContinue is the variant where the error is noted and the run goes   *)
(* on to the write.                                                        *)
FailContinue(msg, detail) ==
    /\ pc' = "write"
    /\ err' = [msg |-> msg, detail |-> detail]
    /\ outstanding' = {}
    /\ UNCHANGED <<mask, issued, bg_atom, prop, geometry, image_x, raw_bg,
                   crtcs, crtc_infos, masked, i, processed, output>>

(* An error propagated with `?` (or bail!) ends main(); cookies not yet    *)
(* resolved are dropped on the way out.                                    *)
Fail(msg, detail) ==
    /\ pc' = "done"
    /\ err' = [msg |-> msg, detail |-> detail]
    /\ outstanding' = {}
    /\ UNCHANGED <<mask, issued, bg_atom, prop, geometry, image_x, raw_bg,
                   crtcs, crtc_infos, masked, i, processed, output>>

(* c.<request>(...): the request goes out and a cookie comes back. *)
Send(q, next) ==
    /\ pc' = next
    /\ issued' = Append(issued, q)
    /\ outstanding' = Issue(outstanding, q)

IsCrtcInfo(q) == q[1] = "crtc_info"

(* The number of randr_get_crtc_info requests sent so far. *)
CrtcInfoSent == Len(SelectSeq(issued, IsCrtcInfo))

-----------------------------------------------------------------------------
(* State after argument parsing and x11rb::connect (main.rs:45-78) *)

Init ==
    /\ pc = "start"
    /\ mask \in BOOLEAN
    /\ issued = <<>>
    /\ outstanding = {}
    /\ bg_atom = 0
    /\ prop = NoProp
    /\ geometry = NoGeometry
    /\ image_x = NoImageReply
    /\ raw_bg = NoImage
    /\ crtcs = <<>>
    /\ crtc_infos = <<>>
    /\ masked = <<>>
    /\ i = 0
    /\ processed = NoImage
    /\ output = NoImage
    /\ err = NoErr

-----------------------------------------------------------------------------
(* get_background *)

SendInternAtom ==
    /\ pc = "start"
    /\ \/ /\ Send(Query("intern_atom", 0), "atom_wait")
          /\ UNCHANGED <<mask, bg_atom, prop, geometry, image_x, raw_bg, crtcs,
                         crtc_infos, masked, i, processed, output, err>>
       \/ Fail("Failed to create cookie to retrieve background atom ID.", 0)

(* only_if_exists = true: the reply's atom is 0 when no such atom exists. *)
ReplyInternAtom ==
    /\ pc = "atom_wait"
    /\ \/ /\ \E a \in {0, 1} : bg_atom' = a
          /\ pc' = "prop_send"
          /\ outstanding' = Resolve(outstanding, Query("intern_atom", 0))
          /\ UNCHANGED <<mask, issued, prop, geometry, image_x, raw_bg, crtcs,
                         crtc_infos, masked, i, processed, output, err>>
       \/ Fail("Failed to get background atom ID.", 0)

SendGetProperty ==
    /\ pc = "prop_send"
    /\ \/ /\ Send(Query("get_property", 0), "prop_wait")
          /\ UNCHANGED <<mask, bg_atom, prop, geometry, image_x, raw_bg, crtcs,
                         crtc_infos, masked, i, processed, output, err>>
       \/ Fail("Failed to create cookie to get background pixmap.", 0)

(* A property named by atom 0 is a BadAtom error; a property that is not   *)
(* set on the window is answered with format 0 and an empty value.         *)
ReplyGetProperty ==
    /\ pc = "prop_wait"
    /\ \/ /\ bg_atom # 0
          /\ \E r \in PropReplies : prop' = r
          /\ pc' = "prop_parse"
          /\ outstanding' = Resolve(outstanding, Query("get_property", 0))
          /\ UNCHANGED <<mask, issued, bg_atom, geometry, image_x, raw_bg, crtcs,
                         crtc_infos, masked, i, processed, output, err>>
       \/ Fail("Failed to get background pixmap.", 0)

(* main.rs:119-125 *)
ParseProperty ==
    /\ pc = "prop_parse"
    /\ \/ /\ ~Value32(prop)
          /\ Fail("Unexpected pixmap reply format {}.", prop.format)
       \/ /\ Value32(prop)
          /\ Len(prop.value) = 0
          /\ Fail("No background pixmap set.", 0)
       \/ /\ Value32(prop)
          /\ Len(prop.value) > 1
          /\ Fail("Too many values in pixmap reply.", 0)
       \/ /\ Value32(prop)
          /\ Len(prop.value) = 1
          /\ pc' = "geom_send"
          /\ UNCHANGED <<mask, issued, outstanding, bg_atom, prop, geometry,
                         image_x, raw_bg, crtcs, crtc_infos, masked, i,
                         processed, output, err>>

SendGetGeometry ==
    /\ pc = "geom_send"
    /\ \/ /\ Send(Query("get_geometry", 0), "geom_wait")
          /\ UNCHANGED <<mask, bg_atom, prop, geometry, image_x, raw_bg, crtcs,
                         crtc_infos, masked, i, processed, output, err>>
       \/ Fail("Failed to create cookie to retrieve background geometry.", 0)

ReplyGetGeometry ==
    /\ pc = "geom_wait"
    /\ \/ /\ \E w \in 1..MaxWidth, h \in 1..MaxHeight :
                geometry' = [width |-> w, height |-> h]
          /\ pc' = "image_send"
          /\ outstanding' = Resolve(outstanding, Query("get_geometry", 0))
          /\ UNCHANGED <<mask, issued, bg_atom, prop, image_x, raw_bg, crtcs,
                         crtc_infos, masked, i, processed, output, err>>
       \/ Fail("Failed to grab background geometry.", 0)

SendGetImage ==
    /\ pc = "image_send"
    /\ \/ /\ Send(Query("get_image", 0), "image_wait")
          /\ UNCHANGED <<mask, bg_atom, prop, geometry, image_x, raw_bg, crtcs,
                         crtc_infos, masked, i, processed, output, err>>
       \/ Fail("Failed to create cookie to retrieve background contents.", 0)

ReplyGetImage ==
    /\ pc = "image_wait"
    /\ \/ /\ \E d \in Depths, bytes \in Payloads(geometry.width, geometry.height) :
                image_x' = [depth |-> d, data |-> bytes]
          /\ pc' = "convert"
          /\ outstanding' = Resolve(outstanding, Query("get_image", 0))
          /\ UNCHANGED <<mask, issued, bg_atom, prop, geometry, raw_bg, crtcs,
                         crtc_infos, masked, i, processed, output, err>>
       \/ Fail("Failed to grab background contents.", 0)

(* main.rs:147-155: from_raw, then the match on the reply's depth. *)
Convert ==
    /\ pc = "convert"
    /\ \/ /\ ~FromRaw(geometry.width, geometry.height, image_x.data)
          /\ Fail("Failed to create image.", 0)
       \/ /\ FromRaw(geometry.width, geometry.height, image_x.data)
          /\ SupportedDepth(image_x.depth)
          /\ raw_bg' = ConvertBuffer(geometry.width, geometry.height,
                                     image_x.data, image_x.depth = RGBA_DEPTH)
          /\ pc' = "bg_done"
          /\ UNCHANGED <<mask, issued, outstanding, bg_atom, prop, geometry,
                         image_x, crtcs, crtc_infos, masked, i, processed,
                         output, err>>
       \/ /\ FromRaw(geometry.width, geometry.height, image_x.data)
          /\ ~SupportedDepth(image_x.depth)
          /\ Fail("Unsupported pixel depth {}.", image_x.depth)

(* get_background returns (its locals go out of scope) and main branches   *)
(* on the mask flag (main.rs:80-86).                                       *)
MainDispatch ==
    /\ pc = "bg_done"
    /\ bg_atom' = 0
    /\ prop' = NoProp
    /\ geometry' = NoGeometry
    /\ image_x' = NoImageReply
    /\ \/ /\ mask
          /\ pc' = "res_send"
          /\ UNCHANGED processed
       \/ /\ ~mask
          /\ pc' = "write"
          /\ processed' = raw_bg
    /\ UNCHANGED <<mask, issued, outstanding, raw_bg, crtcs, crtc_infos,
                   masked, i, output, err>>


-----------------------------------------------------------------------------
(* mask_offscreen *)

Transparent == <<0, 0, 0, 0>>

(* ImageBuffer::from_pixel(width, height, pixel) *)
FromPixel(w, h, p) == [k \in 1..(w * h) |-> p]

(* main.rs:202: the rectangle ends left of or above the origin. *)
Offscreen(r) == r.x + r.width < 0 \/ r.y + r.height < 0

(* main.rs:210-223: a negative origin becomes 0 and shortens the extent;   *)
(* the far edge is left as it is.                                          *)
Clamp(r) ==
    [x |-> IF r.x < 0 THEN 0 ELSE r.x,
     width |-> IF r.x < 0 THEN r.width + r.x ELSE r.width,
     y |-> IF r.y < 0 THEN 0 ELSE r.y,
     height |-> IF r.y < 0 THEN r.height + r.y ELSE r.height]

(* GenericImage::copy_from's bounds check: Err(DimensionMismatch) when the *)
(* source placed at (x, y) does not fit into the destination.              *)
CopyFits(w, h, c) == ~(w < c.width + c.x \/ h < c.height + c.y)

(* DynamicImage::get_pixel, x and y from 0: an Rgba<u8>; an RGB image      *)
(* gives alpha 255.                                                        *)
GetPixel(img, x, y) ==
    LET p == img.px[y * img.width + x + 1]
    IN  IF img.alpha THEN p ELSE <<p[1], p[2], p[3], 255>>

(* CopyFromShort is the variant that stops one column early. *)
CopyFromShort(dst, img, c) ==
    [k \in 1..Len(dst) |->
        LET x == (k - 1) % img.width
            y == (k - 1) \div img.width
        IN  IF /\ c.x <= x /\ x < c.x + c.width - 1
               /\ c.y <= y /\ y < c.y + c.height
            THEN GetPixel(img, x, y)
            ELSE dst[k]]

(* masked.copy_from(&raw_bg.sub_image(x, y, width, height), x, y) once the *)
(* bounds check has passed: every pixel of the area is put at its place.   *)
CopyFrom(dst, img, c) ==
    [k \in 1..Len(dst) |->
        LET x == (k - 1) % img.width
            y == (k - 1) \div img.width
        IN  IF /\ c.x <= x /\ x < c.x + c.width
               /\ c.y <= y /\ y < c.y + c.height
            THEN GetPixel(img, x, y)
            ELSE dst[k]]

(* SingleScreenPromoted is the variant that promotes to RGBA. *)
SingleScreenPromoted(img) ==
    [width |-> img.width, height |-> img.height, alpha |-> TRUE,
     px |-> [k \in 1..Len(img.px) |-> GetPixel(img, (k - 1) % img.width,
                                                 (k - 1) \div img.width)]]

(* main.rs:188: the single-CRTC case returns the background as it is. *)
SingleScreen(img) == img

(* .expect(...) on an Err: the process panics. *)
Panic(msg) == Fail(msg, 0)

SendScreenResources ==
    /\ pc = "res_send"
    /\ \/ /\ Send(Query("get_screen_resources", 0), "res_wait")
          /\ UNCHANGED <<mask, bg_atom, prop, geometry, image_x, raw_bg, crtcs,
                         crtc_infos, masked, i, processed, output, err>>
       \/ Fail("Failed to create cookie to retrieve RandR resources.", 0)

ReplyScreenResources ==
    /\ pc = "res_wait"
    /\ \/ /\ \E n \in 0..MaxCrtcs :
                /\ crtcs' = [k \in 1..n |-> k]
                /\ pc' = IF n = 0 THEN "match_len" ELSE "crtc_send"
          /\ outstanding' = Resolve(outstanding, Query("get_screen_resources", 0))
          /\ UNCHANGED <<mask, issued, bg_atom, prop, geometry, image_x, raw_bg,
                         crtc_infos, masked, i, processed, output, err>>
       \/ Fail("Failed to retrieve RandR resources. Is RandR supported?", 0)

(* main.rs:175-179: one request per CRTC, all sent before any reply is     *)
(* taken; the first send error ends the collect.                           *)
SendCrtcInfo ==
    /\ pc = "crtc_send"
    /\ LET k == CrtcInfoSent + 1
       IN  \/ /\ Send(Query("crtc_info", crtcs[k]),
                      IF k = Len(crtcs) THEN "crtc_wait" ELSE "crtc_send")
              /\ UNCHANGED <<mask, bg_atom, prop, geometry, image_x, raw_bg,
                             crtcs, crtc_infos, masked, i, processed, output,
                             err>>
           \/ Fail("Failed to create cookies to retrieve screen layout.", 0)

(* main.rs:180-184: the replies are taken in order. *)
ReplyCrtcInfo ==
    /\ pc = "crtc_wait"
    /\ LET k == Len(crtc_infos) + 1
       IN  \/ /\ \E r \in Rects : crtc_infos' = Append(crtc_infos, r)
              /\ outstanding' = Resolve(outstanding, Query("crtc_info", crtcs[k]))
              /\ pc' = IF k = Len(crtcs) THEN "match_len" ELSE "crtc_wait"
              /\ UNCHANGED <<mask, issued, bg_atom, prop, geometry, image_x,
                             raw_bg, crtcs, masked, i, processed, output, err>>
           \/ Fail("Failed to retrieve screen layout.", 0)

(* main.rs:186-193 *)
MatchLen ==
    /\ pc = "match_len"
    /\ \/ /\ Len(crtc_infos) = 0
          /\ Fail("RandR reports zero screens.", 0)
       \/ /\ Len(crtc_infos) = 1
          /\ processed' = SingleScreen(raw_bg)
          /\ pc' = "mask_done"
          /\ UNCHANGED <<mask, issued, outstanding, bg_atom, prop, geometry,
                         image_x, raw_bg, crtcs, crtc_infos, masked, i, output,
                         err>>
       \/ /\ Len(crtc_infos) > 1
          /\ masked' = FromPixel(raw_bg.width, raw_bg.height, Transparent)
          /\ i' = 1
          /\ pc' = "mask_loop"
          /\ UNCHANGED <<mask, issued, outstanding, bg_atom, prop, geometry,
                         image_x, raw_bg, crtcs, crtc_infos, processed, output,
                         err>>

(* main.rs:194-230: one iteration of the loop over the CRTC rectangles. *)
MaskStep ==
    /\ pc = "mask_loop"
    /\ i <= Len(crtc_infos)
    /\ LET r == crtc_infos[i]
           c == Clamp(r)
       IN  \/ /\ Offscreen(r)
              /\ i' = i + 1
              /\ UNCHANGED <<pc, mask, issued, outstanding, bg_atom, prop,
                             geometry, image_x, raw_bg, crtcs, crtc_infos,
                             masked, processed, output, err>>
           \/ /\ ~Offscreen(r)
              /\ CopyFits(raw_bg.width, raw_bg.height, c)
              /\ masked' = CopyFrom(masked, raw_bg, c)
              /\ i' = i + 1
              /\ UNCHANGED <<pc, mask, issued, outstanding, bg_atom, prop,
                             geometry, image_x, raw_bg, crtcs, crtc_infos,
                             processed, output, err>>
           \/ /\ ~Offscreen(r)
              /\ ~CopyFits(raw_bg.width, raw_bg.height, c)
              /\ Panic("Failed to copy on-screen areas into final result.")

(* main.rs:232 *)
MaskReturn ==
    /\ pc = "mask_loop"
    /\ i > Len(crtc_infos)
    /\ processed' = [width |-> raw_bg.width, height |-> raw_bg.height,
                     alpha |-> TRUE, px |-> masked]
    /\ pc' = "mask_done"
    /\ UNCHANGED <<mask, issued, outstanding, bg_atom, prop, geometry, image_x,
                   raw_bg, crtcs, crtc_infos, masked, i, output, err>>

(* mask_offscreen returns to main (main.rs:83); its locals go out of scope. *)
MaskDone ==
    /\ pc = "mask_done"
    /\ pc' = "write"
    /\ raw_bg' = NoImage
    /\ crtcs' = <<>>
    /\ crtc_infos' = <<>>
    /\ masked' = <<>>
    /\ i' = 0
    /\ UNCHANGED <<mask, issued, outstanding, bg_atom, prop, geometry, image_x,
                   processed, output, err>>

-----------------------------------------------------------------------------
(* main.rs:88-101: the image is handed to write_to / save. *)
Write ==
    /\ pc = "write"
    /\ \/ /\ output' = processed
          /\ pc' = "done"
          /\ UNCHANGED <<mask, issued, outstanding, bg_atom, prop, geometry,
                         image_x, raw_bg, crtcs, crtc_infos, masked, i,
                         processed, err>>
       \/ Fail("Failed to write image.", 0)

Next ==
    \/ SendInternAtom
    \/ ReplyInternAtom
    \/ SendGetProperty
    \/ ReplyGetProperty
    \/ ParseProperty
    \/ SendGetGeometry
    \/ ReplyGetGeometry
    \/ SendGetImage
    \/ ReplyGetImage
    \/ Convert
    \/ MainDispatch
    \/ SendScreenResources
    \/ ReplyScreenResources
    \/ SendCrtcInfo
    \/ ReplyCrtcInfo
    \/ MatchLen
    \/ MaskStep
    \/ MaskReturn
    \/ MaskDone
    \/ Write

Spec == Init /\ [][Next]_vars

-----------------------------------------------------------------------------
(* Vocabulary of the properties *)

PanicMsg == "Failed to copy on-screen areas into final result."

(* The mask loop is running, has finished, or has panicked at rectangle i. *)
InMask == i >= 1 /\ Len(crtc_infos) >= 2
MaskFailedAt(j) == pc = "done" /\ InMask /\ i = j /\ err.msg = PanicMsg
MaskPassed(j) == InMask /\ j < i

PixelX(img, k) == (k - 1) % img.width
PixelY(img, k) == (k - 1) \div img.width

(* Pixel k of the raster lies in rectangle r. *)
Covers(r, img, k) ==
    /\ r.x <= PixelX(img, k) /\ PixelX(img, k) < r.x + r.width
    /\ r.y <= PixelY(img, k) /\ PixelY(img, k) < r.y + r.height

Pixels(img) == 1..(img.width * img.height)

(* After clamping a negative origin to 0 the far edge is beyond the raster. *)
FarEdgeBeyond(r, img) ==
    \/ Clamp(r).x + Clamp(r).width > img.width
    \/ Clamp(r).y + Clamp(r).height > img.height

NoOverlap(r, img) == \A k \in Pixels(img) : ~Covers(r, img, k)

Within(r, img) ==
    /\ r.x >= 0 /\ r.y >= 0
    /\ r.x + r.width <= img.width /\ r.y + r.height <= img.height

(* The union of the rectangles is exactly the raster. *)
ExactCover(rs, img) ==
    /\ \A j \in 1..Len(rs) : Within(rs[j], img)
    /\ \A k \in Pixels(img) : \E j \in 1..Len(rs) : Covers(rs[j], img, k)

(* Opacity of pixel k: a raster without alpha channel is opaque. *)
Alpha(img, k) == IF img.alpha THEN img.px[k][4] ELSE 255

Rgb(img, k) == <<img.px[k][1], img.px[k][2], img.px[k][3]>>

-----------------------------------------------------------------------------
(* C1: in a layout of two or more rectangles, a rectangle that reaches into *)
(* the raster and whose far edge lies beyond it (after clamping a negative  *)
(* origin to 0) does not make the masking fail: the part of it inside the   *)
(* raster is copied and the rest is ignored.                                *)
C1_FarEdgeTolerated ==
    \A j \in 1..Len(crtc_infos) :
        FarEdgeBeyond(crtc_infos[j], raw_bg) /\ ~NoOverlap(crtc_infos[j], raw_bg) =>
            /\ ~MaskFailedAt(j)
            /\ MaskPassed(j) =>
                 \A k \in Pixels(raw_bg) :
                     Covers(crtc_infos[j], raw_bg, k) =>
                         masked[k] = GetPixel(raw_bg, PixelX(raw_bg, k),
                                              PixelY(raw_bg, k))

(* C2 as stated: the output of the masking always has an alpha channel;     *)
(* with exactly one rectangle it is the input raster with the same          *)
(* red/green/blue values, promoted to RGBA if the input was RGB.            *)
C2_AlwaysAlpha ==
    pc = "mask_done" =>
        /\ processed.alpha
        /\ Len(crtc_infos) = 1 =>
              /\ processed.width = raw_bg.width
              /\ processed.height = raw_bg.height
              /\ \A k \in Pixels(raw_bg) : Rgb(processed, k) = Rgb(raw_bg, k)

(* C2 amended: with two or more rectangles the output of the masking has    *)
(* an alpha channel and the input's dimensions; with exactly one rectangle  *)
(* it is the input raster unchanged, so an RGB (depth 24) input stays RGB.  *)
C2_SingleUnchanged ==
    pc = "mask_done" =>
        /\ Len(crtc_infos) = 1 => processed = raw_bg
        /\ Len(crtc_infos) >= 2 =>
              /\ processed.alpha
              /\ processed.width = raw_bg.width
              /\ processed.height = raw_bg.height
              /\ Len(processed.px) = raw_bg.width * raw_bg.height

C2_Witness ==
    /\ pc = "mask_done"
    /\ Len(crtc_infos) = 1
    /\ ~raw_bg.alpha
    /\ ~processed.alpha

(* C3: in a layout of two or more rectangles, a rectangle that has no       *)
(* overlap with the raster on any side (left/top or right/bottom) does not  *)
(* make the masking fail and contributes no opaque pixel: a pixel that no   *)
(* processed rectangle covers stays transparent.                            *)
C3_NoOverlapHarmless ==
    /\ \A j \in 1..Len(crtc_infos) :
          NoOverlap(crtc_infos[j], raw_bg) => ~MaskFailedAt(j)
    /\ InMask /\ pc = "mask_loop" =>
          \A k \in Pixels(raw_bg) :
              (\A j \in 1..(i - 1) : ~Covers(crtc_infos[j], raw_bg, k))
                  => masked[k] = Transparent

(* C4 as stated: when the union of the rectangles is exactly the raster,    *)
(* every pixel of the output of the masking is fully opaque, whatever the   *)
(* source alpha values.                                                     *)
C4_AllOpaque ==
    pc = "mask_done" /\ ExactCover(crtc_infos, raw_bg) =>
        \A k \in Pixels(raw_bg) : Alpha(processed, k) = 255

(* C4 amended: when the union of the rectangles is exactly the raster,      *)
(* every pixel of the output of the masking has the colour and the opacity  *)
(* of the same pixel of the input raster: fully opaque for a depth-24       *)
(* input, the source's alpha value for a depth-32 input.                    *)
C4_AlphaKept ==
    pc = "mask_done" /\ ExactCover(crtc_infos, raw_bg) =>
        \A k \in Pixels(raw_bg) :
            /\ Alpha(processed, k) = Alpha(raw_bg, k)
            /\ Rgb(processed, k) = Rgb(raw_bg, k)
            /\ ~raw_bg.alpha => Alpha(processed, k) = 255

C4_Witness ==
    /\ pc = "mask_done"
    /\ Len(crtc_infos) >= 2
    /\ ExactCover(crtc_infos, raw_bg)
    /\ raw_bg.alpha
    /\ \E k \in Pixels(raw_bg) : Alpha(processed, k) = 0

(* C5: when the background property is absent on the root window (the       *)
(* reply has format 0 and an empty value), the run fails with               *)
(* "No background pixmap set.", which is another error than the             *)
(* "Unexpected pixmap reply format" one for a reply whose format is not 32. *)
C5_AbsentIsNoBackground ==
    pc = "done" /\ prop.format = 0 /\ prop.value = <<>> =>
        err.msg = "No background pixmap set."

(* C6 as stated, for a reply of depth 24 or 32: a pixel payload whose byte   *)
(* length differs from width*height*4, shorter or longer, fails with        *)
(* "Failed to create image." and no raster is produced.                     *)
C6_AnyMismatchFails ==
    /\ pc \in {"bg_done", "done"}
    /\ image_x.depth \in {RGB_DEPTH, RGBA_DEPTH}
    /\ Len(image_x.data) # geometry.width * geometry.height * 4
    => /\ err.msg = "Failed to create image."
       /\ raw_bg = NoImage

(* C6 amended: a pixel payload shorter than width*height*4 bytes fails      *)
(* with "Failed to create image." and no raster is produced; that error     *)
(* has no other cause, so a longer payload is accepted.                     *)
C6_ShortFails ==
    pc \in {"bg_done", "done"} /\ image_x.depth # 0 =>
        /\ Len(image_x.data) < geometry.width * geometry.height * 4 =>
              /\ err.msg = "Failed to create image."
              /\ raw_bg = NoImage
        /\ err.msg = "Failed to create image." =>
              Len(image_x.data) < geometry.width * geometry.height * 4

C6_Witness ==
    /\ pc = "done"
    /\ image_x.depth # 0
    /\ Len(image_x.data) = geometry.width * geometry.height * 4 - 1
    /\ err.msg = "Failed to create image."

(* C7: the conversion maps each pixel's source channels (0 = blue,          *)
(* 1 = green, 2 = red, 3 = pad/alpha) so that the output's red, green and   *)
(* blue are the input's channels 2, 1 and 0; at depth 24 the output has no  *)
(* alpha channel, at depth 32 its alpha is the input's channel 3.           *)
C7_Normalize ==
    pc = "bg_done" =>
        /\ raw_bg.width = geometry.width
        /\ raw_bg.height = geometry.height
        /\ Len(raw_bg.px) = geometry.width * geometry.height
        /\ raw_bg.alpha = (image_x.depth = RGBA_DEPTH)
        /\ \A k \in Pixels(raw_bg) :
              /\ raw_bg.px[k][1] = image_x.data[4 * (k - 1) + 2 + 1]
              /\ raw_bg.px[k][2] = image_x.data[4 * (k - 1) + 1 + 1]
              /\ raw_bg.px[k][3] = image_x.data[4 * (k - 1) + 0 + 1]
              /\ image_x.depth = RGB_DEPTH => Len(raw_bg.px[k]) = 3
              /\ image_x.depth = RGBA_DEPTH =>
                    /\ Len(raw_bg.px[k]) = 4
                    /\ raw_bg.px[k][4] = image_x.data[4 * (k - 1) + 3 + 1]

C7_Witness ==
    /\ pc = "bg_done"
    /\ image_x.depth = RGB_DEPTH
    /\ geometry.width = 2
    /\ raw_bg.px[1] = <<3, 2, 1>>
    /\ raw_bg.px[2] = <<6, 5, 4>>

(* C8: a reply whose depth is neither 24 nor 32 ends the run: once the      *)
(* conversion has looked at it there is no raster, no RandR request has     *)
(* been sent and nothing is written; when the payload is well formed the    *)
(* error is "Unsupported pixel depth" carrying that depth.                  *)
C8_UnsupportedDepth ==
    /\ image_x.depth \notin {0, RGB_DEPTH, RGBA_DEPTH}
    /\ pc # "convert"
    => /\ pc = "done"
       /\ raw_bg = NoImage
       /\ processed = NoImage
       /\ output = NoImage
       /\ \A n \in 1..Len(issued) :
             issued[n][1] \notin {"get_screen_resources", "crtc_info"}
       /\ err # NoErr
       /\ Len(image_x.data) >= geometry.width * geometry.height * 4 =>
             err = [msg |-> "Unsupported pixel depth {}.",
                    detail |-> image_x.depth]

C8_Witness ==
    /\ pc = "done"
    /\ mask
    /\ image_x.depth = 8
    /\ Len(image_x.data) = geometry.width * geometry.height * 4
    /\ err = [msg |-> "Unsupported pixel depth {}.", detail |-> 8]

(* C9 as stated: every query is synchronous, so at most one query is        *)
(* outstanding at any time, the per-CRTC info queries included.             *)
C9_AtMostOneOutstanding == Cardinality(outstanding) <= 1

(* C9 amended: outside the per-CRTC info queries at most one query is       *)
(* outstanding at any time; the per-CRTC info queries are all sent before   *)
(* the first of their replies is taken, so as many queries as there are     *)
(* CRTCs are outstanding at once, and they are answered in order.           *)
C9_OnlyCrtcInfoPipelined ==
    /\ pc \notin {"crtc_send", "crtc_wait"} => Cardinality(outstanding) <= 1
    /\ pc = "crtc_send" =>
          outstanding = { Query("crtc_info", crtcs[k]) : k \in 1..CrtcInfoSent }
    /\ pc = "crtc_wait" =>
          outstanding = { Query("crtc_info", crtcs[k]) :
                            k \in (Len(crtc_infos) + 1)..Len(crtcs) }
    /\ pc \in {"atom_wait", "prop_wait", "geom_wait", "image_wait", "res_wait"}
          => outstanding = {issued[Len(issued)]}

C9_Witness ==
    /\ pc = "crtc_wait"
    /\ crtc_infos = <<>>
    /\ Cardinality(outstanding) = Len(crtcs)
    /\ Len(crtcs) >= 2

(* C10: every error is terminal: once a query or stage has failed the run   *)
(* is over, no further query is sent and nothing is written; no query is    *)
(* sent twice; and what is written is the processed image of a run in       *)
(* which every requested stage has succeeded.                               *)
C10_Inv ==
    /\ \A a, b \in 1..Len(issued) : a # b => issued[a] # issued[b]
    /\ err # NoErr => pc = "done" /\ output = NoImage
    /\ output # NoImage =>
          /\ err = NoErr
          /\ pc = "done"
          /\ outstanding = {}
          /\ output = processed
          /\ \E n \in 1..Len(issued) : issued[n] = Query("get_image", 0)
          /\ mask <=> \E n \in 1..Len(issued) :
                         issued[n] = Query("get_screen_resources", 0)
          /\ mask => output.alpha \/ CrtcInfoSent = 1

C10_Step == err # NoErr => UNCHANGED <<issued, output, err, pc>>

C10_ErrorsTerminal == [](C10_Inv) /\ [][C10_Step]_vars

C10_Witness ==
    /\ pc = "done"
    /\ err.msg = "Failed to retrieve screen layout."
    /\ Len(crtc_infos) = 1
    /\ Len(crtcs) = 2
    /\ output = NoImage

=============================================================================
